---- MODULE Spec2Model ----
(***************************************************************************)
(* Model of src/app.py: the LLMInterface window (foreground, Qt main       *)
(* thread) and the LLMWorker threads it starts (background).               *)
(*                                                                         *)
(* Text is modelled as a sequence of tokens (a token is a TLA+ string), so *)
(* that concatenation is \o, str.strip() is computed, and a template keeps *)
(* the order of its pieces.  A question is a sequence of one-character     *)
(* tokens.  Signals emitted by a worker thread are queued connections      *)
(* (the receiver lives in the main thread): an emit appends to mainq, and  *)
(* the main event loop delivers the head of mainq to the connected slot.   *)
(*                                                                         *)
(* Widgets that no handler of the chat tab reads (file_path_label,         *)
(* preview_area, x_column, y_column, plot_type, web_view) are not part of  *)
(* the state.  An LLMWorker whose reference was overwritten is destroyed:  *)
(* its record keeps only what it emitted and what was handled.  run()      *)
(* reads no field of its worker after the terminal emit, so the record     *)
(* drops the fields there already.                                         *)
(***************************************************************************)
EXTENDS Integers, Sequences, FiniteSets, TLC

\* ---------------------------------------------------------------- bounds
MaxLen == 2               \* longest text the user types, in characters
MaxSubmits == 2           \* workers created in one run of the program
NumModelChoices == 2      \* how many of the model items the user picks among
NumTempChoices == 2       \* how many of the temperature items the user picks among
NumFiles == 1             \* how many different CSV files the user opens

\* ------------------------------------------------------- program constants
ModelItems == <<"deepseek-r1:7b", "codellama:7b", "deepseek-r1:1.5b">>
TempItems == <<"0.0", "0.2", "0.4", "0.6", "0.8", "1.0">>
InitialTempText == "0.7"
InitMessage == "Initializing LLM..."

\* ------------------------------------------------------------ environment
Chars == {" ", "q"}
Texts == UNION {[1..n -> Chars] : n \in 0..MaxLen}
ResponseTexts == {<<"T1">>, <<"T2">>}
Faults == {<<"connection refused">>}
\* tabular data a CSV file can hold: shape, columns, head() and describe()
Datasets ==
  <<[rows |-> 10, cols |-> 2, columns |-> <<"a", "b">>,
     head |-> "head(d1)", describe |-> "describe(d1)"],
    [rows |-> 3, cols |-> 1, columns |-> <<"x">>,
     head |-> "head(d2)", describe |-> "describe(d2)"],
    [rows |-> 0, cols |-> 3, columns |-> <<"k", "l", "m">>,
     head |-> "head(d3)", describe |-> "describe(d3)"]>>
NoDf == 0
NoWorker == 0
NoneCtx == <<>>

\* ----------------------------------------------------------- pure helpers
IsSpace(c) == c = " "

RECURSIVE LStrip(_)
LStrip(s) ==
  IF s = <<>> THEN <<>>
  ELSE IF IsSpace(Head(s)) THEN LStrip(Tail(s)) ELSE s

RECURSIVE RStrip(_)
RStrip(s) ==
  IF s = <<>> THEN <<>>
  ELSE IF IsSpace(s[Len(s)]) THEN RStrip(SubSeq(s, 1, Len(s) - 1)) ELSE s

\* variant: the text is taken as typed
StripNothing(s) == s

Strip(s) == RStrip(LStrip(s))

RECURSIVE Join(_, _)
Join(items, sep) ==
  IF items = <<>> THEN <<>>
  ELSE IF Len(items) = 1 THEN <<items[1]>>
  ELSE <<items[1], sep>> \o Join(Tail(items), sep)

\* QComboBox.findText: index of the first item equal to text, 0 when none
FindText(items, text) ==
  IF \E i \in 1..Len(items) : items[i] = text
  THEN CHOOSE i \in 1..Len(items) :
         items[i] = text /\ \A j \in 1..(i - 1) : items[j] # text
  ELSE 0

\* QComboBox.setCurrentText on a non-editable box: selects the matching item,
\* and leaves the current index alone when no item matches
SetCurrentText(items, current, text) ==
  IF FindText(items, text) # 0 THEN FindText(items, text) ELSE current

\* float(): the value in tenths, or -1 for a ValueError
Float(text) ==
  CASE text = "0.0" -> 0
    [] text = "0.2" -> 2
    [] text = "0.4" -> 4
    [] text = "0.6" -> 6
    [] text = "0.8" -> 8
    [] text = "1.0" -> 10
    [] OTHER -> -1

\* variant: the summary statistics come before the first rows
CsvContextStatsFirst(d) ==
  <<"The CSV file has ", ToString(d.rows), " rows and ", ToString(d.cols),
    " columns.\nColumn names: ">>
  \o Join(d.columns, ", ")
  \o <<"\n\nSummary statistics:\n", d.describe,
       "\n\nFirst few rows of the data:\n", d.head>>

\* the f-string of process_question
CsvContext(d) ==
  <<"The CSV file has ", ToString(d.rows), " rows and ", ToString(d.cols),
    " columns.\nColumn names: ">>
  \o Join(d.columns, ", ")
  \o <<"\n\nFirst few rows of the data:\n", d.head,
       "\n\nSummary statistics:\n", d.describe>>

\* the prompt LLMChain formats from the template run() picked
Prompt(question, csv_context) ==
  IF csv_context # NoneCtx
  THEN <<"CSV Data Context:\n">> \o csv_context
       \o <<"\n\nQuestion about the data: ">> \o question
       \o <<"\n\nProvide a clear and detailed answer based on the CSV data above:">>
  ELSE <<"Question: ">> \o question \o <<"\nDetailed Answer:">>

\* str(KeyError("text"))
KeyErrorText == <<"'text'">>

\* ------------------------------------------------------------------ state
VARIABLES
  input_area,        \* text of the question box
  model_selector,    \* current index of the model combo box
  temp_selector,     \* current index of the temperature combo box
  enabled,           \* enabled flag of the four input controls
  progress,          \* "hidden" or "busy" (range 0,0 and shown)
  df,                \* self.df: NoDf or an index into Datasets
  last_load,         \* history: how the last load attempt that was not cancelled ended
  status_label,
  output_area,
  worker,            \* self.worker: NoWorker or the id of the last worker
  workers,           \* every LLMWorker created so far, by id
  mainq,             \* queued signal deliveries posted to the main thread
  aborted,           \* the process was aborted by Qt
  outcome,           \* history: what the environment did to each worker's run
  op                 \* history: "process_question" right after that slot ran

vars == <<input_area, model_selector, temp_selector, enabled, progress, df, last_load,
          status_label, output_area, worker, workers, mainq, aborted,
          outcome, op>>

bg == <<worker, workers, mainq, outcome>>

AllEnabled ==
  [submit_button |-> TRUE, input_area |-> TRUE,
   model_selector |-> TRUE, temp_selector |-> TRUE]
AllDisabled ==
  [submit_button |-> FALSE, input_area |-> FALSE,
   model_selector |-> FALSE, temp_selector |-> FALSE]

Init ==
  /\ input_area = <<>>
  /\ model_selector = 1
  /\ temp_selector = SetCurrentText(TempItems, 1, InitialTempText)
  /\ enabled = AllEnabled
  /\ progress = "hidden"
  /\ df = NoDf
  /\ last_load = "none"
  /\ status_label = <<>>
  /\ output_area = <<>>
  /\ worker = NoWorker
  /\ workers = <<>>
  /\ mainq = <<>>
  /\ aborted = FALSE
  /\ outcome = <<>>
  /\ op = "other"

\* ------------------------------------------------- foreground: the widgets
\* the user types into the question box (possible only while it is enabled)
TypeQuestion(t) ==
  /\ ~aborted
  /\ enabled.input_area
  /\ input_area' = t
  /\ op' = "other"
  /\ UNCHANGED <<model_selector, temp_selector, enabled, progress, df, last_load,
                 status_label, output_area, bg, aborted>>

SelectModel(i) ==
  /\ ~aborted
  /\ enabled.model_selector
  /\ model_selector' = i
  /\ op' = "other"
  /\ UNCHANGED <<input_area, temp_selector, enabled, progress, df, last_load,
                 status_label, output_area, bg, aborted>>

SelectTemp(i) ==
  /\ ~aborted
  /\ enabled.temp_selector
  /\ temp_selector' = i
  /\ op' = "other"
  /\ UNCHANGED <<input_area, model_selector, enabled, progress, df, last_load,
                 status_label, output_area, bg, aborted>>

\* --------------------------------------------------- foreground: handlers
\* variant: the except branch reports the fault and keeps the old dataset
upload_csv_keep(result, i, f) ==
  /\ ~aborted
  /\ op' = "other"
  /\ CASE result = "cancel" ->
            UNCHANGED <<df, last_load, status_label>>
       [] result = "ok" ->
            /\ df' = i
            /\ status_label' = <<"CSV file loaded successfully">>
            /\ last_load' = "ok"
       [] result = "fault" ->
            /\ status_label' = <<"Error loading CSV: ">> \o f
            /\ last_load' = "fault"
            /\ UNCHANGED df
  /\ UNCHANGED <<input_area, model_selector, temp_selector, enabled, progress,
                 output_area, bg, aborted>>

\* upload_csv, by what the dialog and pandas do:
\*   "cancel"   the dialog returns no file name
\*   "ok"       file i is read and previewed
\*   "fault"    a statement of the try block raises f
upload_csv(result, i, f) ==
  /\ ~aborted
  /\ op' = "other"
  /\ CASE result = "cancel" ->
            UNCHANGED <<df, last_load, status_label>>
       [] result = "ok" ->
            /\ df' = i
            /\ status_label' = <<"CSV file loaded successfully">>
            /\ last_load' = "ok"
       [] result = "fault" ->
            /\ status_label' = <<"Error loading CSV: ">> \o f
            /\ df' = NoDf
            /\ last_load' = "fault"
  /\ UNCHANGED <<input_area, model_selector, temp_selector, enabled, progress,
                 output_area, bg, aborted>>

\* create_plot, as far as the chat tab sees it: the status line
create_plot(ok, f) ==
  /\ ~aborted
  /\ op' = "other"
  /\ status_label' =
       IF df = NoDf THEN <<"Please load a CSV file first">>
       ELSE IF ok THEN <<"Plot created successfully">>
       ELSE <<"Error creating plot: ">> \o f
  /\ UNCHANGED <<input_area, model_selector, temp_selector, enabled, progress,
                 df, last_load, output_area, bg, aborted>>

NoSubmit == [input_area |-> <<>>, model_selector |-> 0, temp_selector |-> 0,
             df |-> NoDf, last_load |-> "none"]

\* LLMWorker.__init__: the fields are the values passed in.  History kept
\* with the object: emitted (signals it sent), handled (signals a slot
\* received), calls (backend requests it made), request (the last of them),
\* at_submit (what the window showed when it was created), thread (the
\* thread that executes run(): none before the worker is started)
NewWorker(question, model_name, temperature, csv_context) ==
  [question |-> question, model_name |-> model_name,
   temperature |-> temperature, csv_context |-> csv_context,
   pc |-> "created", thread |-> "none", emitted |-> <<>>, handled |-> <<>>,
   calls |-> 0, request |-> <<>>,
   at_submit |-> [input_area |-> input_area, model_selector |-> model_selector,
                  temp_selector |-> temp_selector, df |-> df,
                  last_load |-> last_load]]

\* the QThread of worker w is still executing (start() called, not finished)
ThreadRunning(w) == workers[w].pc \notin {"created", "returned", "destroyed"}

\* the fields of a worker nothing reads any more
Dead(rec) ==
  [rec EXCEPT !.question = <<>>, !.model_name = "", !.temperature = 0,
              !.csv_context = NoneCtx, !.request = <<>>,
              !.at_submit = NoSubmit]

\* the last reference to a worker is dropped: the object is gone
Destroyed(rec) == [Dead(rec) EXCEPT !.pc = "destroyed"]

\* what the environment did to a run: nothing yet, a fault raised inside the
\* try block, or a response of the backend (with or without "text")
Nothing == [kind |-> "nothing", value |-> <<>>]
Fault(f) == [kind |-> "fault", value |-> f]
Response(has_text, text) ==
  IF has_text THEN [kind |-> "text", value |-> text]
  ELSE [kind |-> "no text", value |-> <<>>]

\* variant: the worker is created and connected, and never started
StartForgotten(rec) == rec

\* variant: self.worker.run(), which executes run() in the calling thread
StartAsCall(rec) == [rec EXCEPT !.pc = "started", !.thread = "foreground"]

\* self.worker.start(): QThread.start() executes run() in a new thread
Start(rec) == [rec EXCEPT !.pc = "started", !.thread = "background"]

\* self.worker = LLMWorker(...) ; connect ; start.  The assignment drops the
\* window's reference to the previous worker.  When that worker's thread has
\* finished, the object is destroyed.  When it has not, either the running
\* run() still holds the object and the new worker is started beside it, or
\* the object is destroyed at once and Qt aborts the process ("QThread:
\* Destroyed while thread is still running").
StartWorker(new) ==
  LET id == Len(workers) + 1
      old == IF worker = NoWorker THEN workers
             ELSE [workers EXCEPT ![worker] = Destroyed(@)]
  IN /\ worker' = id
     /\ outcome' = Append(outcome, Nothing)
     /\ IF worker # NoWorker /\ ThreadRunning(worker)
        THEN \/ /\ workers' = Append(workers, new)
                /\ aborted' = TRUE
             \/ /\ workers' = Append(workers, Start(new))
                /\ UNCHANGED aborted
        ELSE /\ workers' = Append(old, Start(new))
             /\ UNCHANGED aborted

\* variant: the submit button is left enabled
DisableInputOnly ==
  /\ enabled' = [AllDisabled EXCEPT !.submit_button = TRUE]
  /\ progress' = "busy"

\* lines 311-316
DisableInput ==
  /\ enabled' = AllDisabled
  /\ progress' = "busy"

\* process_question: the slot of submit_button.clicked, so it runs only while
\* the button is enabled.  Two ways out of it abort the process: an exception
\* that leaves the slot (float() of a non-numeric text), and dropping the last
\* reference to a QThread that is still running.
process_question ==
  /\ ~aborted
  /\ enabled.submit_button
  /\ op' = "process_question"
  /\ LET question == Strip(input_area)
         csv_context == IF df # NoDf THEN CsvContext(Datasets[df]) ELSE NoneCtx
         temperature == Float(TempItems[temp_selector])
     IN IF question = <<>>
        THEN UNCHANGED <<enabled, progress, bg, aborted>>
        ELSE /\ Len(workers) < MaxSubmits
             /\ DisableInput
             /\ UNCHANGED mainq
             /\ IF temperature = -1
                THEN /\ aborted' = TRUE
                     /\ UNCHANGED <<worker, workers, outcome>>
                ELSE StartWorker(NewWorker(question, ModelItems[model_selector],
                                           temperature, csv_context))
  /\ UNCHANGED <<input_area, model_selector, temp_selector, df, last_load, status_label,
                 output_area>>

\* the event loop hands the oldest queued notification to its slot
Dispatched(sig) ==
  /\ ~aborted
  /\ mainq # <<>>
  /\ Head(mainq).sig = sig
  /\ mainq' = Tail(mainq)
  /\ workers' = [workers EXCEPT ![Head(mainq).w].handled = Append(@, sig)]
  /\ UNCHANGED outcome

\* variant: the temperature selector is not enabled again
ResetUiNoTemp ==
  /\ enabled' = [AllEnabled EXCEPT !.temp_selector = enabled.temp_selector]
  /\ progress' = "hidden"

\* _reset_ui
ResetUi ==
  /\ enabled' = AllEnabled
  /\ progress' = "hidden"

\* variant: a progress notification re-enables the input
handle_progress_reset ==
  /\ Dispatched("progress")
  /\ status_label' = Head(mainq).arg
  /\ ResetUi
  /\ op' = "other"
  /\ UNCHANGED <<input_area, model_selector, temp_selector, df, last_load, output_area,
                 worker, aborted>>

handle_progress ==
  /\ Dispatched("progress")
  /\ status_label' = Head(mainq).arg
  /\ op' = "other"
  /\ UNCHANGED <<input_area, model_selector, temp_selector, enabled, progress,
                 df, last_load, output_area, worker, aborted>>

\* variant: the response is appended to the output area
handle_response_append ==
  /\ Dispatched("finished")
  /\ output_area' = output_area \o Head(mainq).arg
  /\ status_label' = <<"Response complete">>
  /\ ResetUi
  /\ op' = "other"
  /\ UNCHANGED <<input_area, model_selector, temp_selector, df, last_load, worker, aborted>>

handle_response ==
  /\ Dispatched("finished")
  /\ output_area' = Head(mainq).arg
  /\ status_label' = <<"Response complete">>
  /\ ResetUi
  /\ op' = "other"
  /\ UNCHANGED <<input_area, model_selector, temp_selector, df, last_load, worker, aborted>>

handle_error ==
  /\ Dispatched("error")
  /\ output_area' = <<"Error: ">> \o Head(mainq).arg
  /\ status_label' = <<"Error occurred">>
  /\ ResetUi
  /\ op' = "other"
  /\ UNCHANGED <<input_area, model_selector, temp_selector, df, last_load, worker, aborted>>

\* ------------------------------------------------- background: LLMWorker.run
Live(w) == ~aborted /\ w \in DOMAIN workers

fg == <<input_area, model_selector, temp_selector, enabled, progress, df, last_load,
        status_label, output_area, worker, aborted>>

\* signal.emit(arg) from the worker thread: a queued call posted to the main
\* thread
Emit(w, sig, arg, pc) ==
  /\ mainq' = Append(mainq, [w |-> w, sig |-> sig, arg |-> arg])
  /\ workers' = [workers EXCEPT
       ![w] = [(IF pc = "emitted" THEN Dead(@) ELSE @) EXCEPT
                 !.pc = pc, !.emitted = Append(@, sig)]]

\* variant: the exception is swallowed
ExceptPass(w, e) ==
  /\ workers' = [workers EXCEPT ![w] = [Dead(@) EXCEPT !.pc = "emitted"]]
  /\ UNCHANGED mainq

\* variant: the handler encloses one statement only and run() goes on
ExceptAndGoOn(w, e) == Emit(w, "error", e, "invoke")

\* except Exception as e: self.error.emit(str(e))
Except(w, e) == Emit(w, "error", e, "emitted")

\* what run() reads when it builds and sends the request
WorkerModel(w) == workers[w].model_name
WorkerTemperature(w) == workers[w].temperature
\* variant: the worker holds the window and reads its dataset when it runs
WorkerContextOfWindow(w) ==
  IF df # NoDf THEN CsvContext(Datasets[df]) ELSE NoneCtx

WorkerContext(w) == workers[w].csv_context
WorkerQuestion(w) == workers[w].question

\* variant: run() goes straight to the client, without the first emit
EmitProgressSkipped(w) ==
  /\ Live(w)
  /\ workers[w].pc = "started"
  /\ workers' = [workers EXCEPT ![w].pc = "llm"]
  /\ op' = "other"
  /\ UNCHANGED <<fg, mainq, outcome>>

\* self.progress.emit("Initializing LLM...")
EmitProgress(w) ==
  /\ Live(w)
  /\ workers[w].pc = "started"
  /\ Emit(w, "progress", <<InitMessage>>, "llm")
  /\ op' = "other"
  /\ UNCHANGED <<fg, outcome>>

\* llm = OllamaLLM(...): returns, or raises f
ConstructLLM(w, ok, f) ==
  /\ Live(w)
  /\ workers[w].pc = "llm"
  /\ IF ok
     THEN /\ workers' = [workers EXCEPT ![w].pc = "chain"]
          /\ UNCHANGED <<mainq, outcome>>
     ELSE /\ Except(w, f)
          /\ outcome' = [outcome EXCEPT ![w] = Fault(f)]
  /\ op' = "other"
  /\ UNCHANGED fg

\* PromptTemplate(...) and LLMChain(...): return, or raise f
BuildChain(w, ok, f) ==
  /\ Live(w)
  /\ workers[w].pc = "chain"
  /\ IF ok
     THEN /\ workers' = [workers EXCEPT ![w].pc = "invoke"]
          /\ UNCHANGED <<mainq, outcome>>
     ELSE /\ Except(w, f)
          /\ outcome' = [outcome EXCEPT ![w] = Fault(f)]
  /\ op' = "other"
  /\ UNCHANGED fg

\* the request chain.invoke sends (df_at_call is history)
Request(w) ==
  [model |-> WorkerModel(w), temperature |-> WorkerTemperature(w),
   prompt |-> Prompt(WorkerQuestion(w), WorkerContext(w)),
   df_at_call |-> df]

\* chain.invoke(...): the prompt is formatted and the request reaches the
\* backend; the thread blocks until the backend answers
InvokeBackend(w) ==
  /\ Live(w)
  /\ workers[w].pc = "invoke"
  /\ workers' = [workers EXCEPT ![w].pc = "blocked",
                                ![w].calls = @ + 1,
                                ![w].request = Request(w)]
  /\ op' = "other"
  /\ UNCHANGED <<fg, mainq, outcome>>

\* variant: response.get("text", "")
EmitResponseGet(w, has_text, text) ==
  Emit(w, "finished", IF has_text THEN text ELSE <<>>, "emitted")

\* what self.finished.emit(response["text"]) does with the response
EmitResponse(w, has_text, text) ==
  IF has_text THEN Emit(w, "finished", text, "emitted")
  ELSE Except(w, KeyErrorText)

\* chain.invoke returns a response, with or without a "text" entry
BackendReturns(w, has_text, text) ==
  /\ Live(w)
  /\ workers[w].pc = "blocked"
  /\ EmitResponse(w, has_text, text)
  /\ outcome' = [outcome EXCEPT ![w] = Response(has_text, text)]
  /\ op' = "other"
  /\ UNCHANGED fg

\* variant: a failed request is sent again
BackendRaisesRetry(w, f) ==
  /\ Live(w)
  /\ workers[w].pc = "blocked"
  /\ workers' = [workers EXCEPT ![w].pc = "invoke"]
  /\ outcome' = [outcome EXCEPT ![w] = Fault(f)]
  /\ op' = "other"
  /\ UNCHANGED <<fg, mainq>>

\* chain.invoke raises f
BackendRaises(w, f) ==
  /\ Live(w)
  /\ workers[w].pc = "blocked"
  /\ Except(w, f)
  /\ outcome' = [outcome EXCEPT ![w] = Fault(f)]
  /\ op' = "other"
  /\ UNCHANGED fg

\* run() returns and the QThread finishes.  A worker the window no longer
\* refers to loses its last reference here: it is deleted once its thread
\* has finished, or while it still runs, which aborts the process.
ThreadExit(w) ==
  /\ Live(w)
  /\ workers[w].pc = "emitted"
  /\ IF w = worker
     THEN /\ workers' = [workers EXCEPT ![w].pc = "returned"]
          /\ UNCHANGED aborted
     ELSE \/ /\ workers' = [workers EXCEPT ![w] = Destroyed(@)]
             /\ UNCHANGED aborted
          \/ /\ aborted' = TRUE
             /\ UNCHANGED workers
  /\ op' = "other"
  /\ UNCHANGED <<input_area, model_selector, temp_selector, enabled, progress,
                 df, last_load, status_label, output_area, worker, mainq, outcome>>

\* ---------------------------------------------------------- specification
WorkerIds == 1..MaxSubmits

\* the main thread is in its event loop, not inside a call that has not
\* returned
MainIdle ==
  \A w \in DOMAIN workers :
    workers[w].thread = "foreground" => ~ThreadRunning(w)

LoadsCsv ==
  \E o \in {"cancel", "ok", "fault"},
     i \in 1..NumFiles, f \in Faults : upload_csv(o, i, f)

Plots == \E ok \in BOOLEAN, f \in Faults : create_plot(ok, f)

User ==
  \/ \E t \in Texts : MainIdle /\ TypeQuestion(t)
  \/ \E i \in 1..NumModelChoices : MainIdle /\ SelectModel(i)
  \/ \E i \in 1..NumTempChoices : MainIdle /\ SelectTemp(i)
  \/ MainIdle /\ LoadsCsv
  \/ MainIdle /\ Plots
  \/ MainIdle /\ process_question

EventLoop ==
  \/ MainIdle /\ handle_progress
  \/ MainIdle /\ handle_response
  \/ MainIdle /\ handle_error

Run(w) ==
  \/ EmitProgress(w)
  \/ \E ok \in BOOLEAN, f \in Faults : ConstructLLM(w, ok, f)
  \/ \E ok \in BOOLEAN, f \in Faults : BuildChain(w, ok, f)
  \/ InvokeBackend(w)
  \/ ThreadExit(w)

Backend(w) ==
  \/ \E has_text \in BOOLEAN, text \in ResponseTexts : BackendReturns(w, has_text, text)
  \/ \E f \in Faults : BackendRaises(w, f)

Next ==
  \/ User
  \/ EventLoop
  \/ \E w \in WorkerIds : Run(w)
  \/ \E w \in WorkerIds : Backend(w)

Spec == Init /\ [][Next]_vars

\* the scheduling the program can count on: a started thread keeps running
\* until it blocks in the backend call or returns, and the main event loop
\* keeps delivering queued notifications.  Nothing makes the user act, and
\* nothing in the code makes the backend call end.
FairSpec ==
  /\ Spec
  /\ \A w \in WorkerIds : WF_vars(Run(w))
  /\ WF_vars(EventLoop)

\* ----------------------------------------------------------------- claims
Terminals == {"finished", "error"}
Count(seq, S) == Cardinality({i \in 1..Len(seq) : seq[i] \in S})

Started(w) == w \in DOMAIN workers /\ workers[w].pc # "created"
TerminalHandled(w) ==
  w \in DOMAIN workers /\ Count(workers[w].handled, Terminals) > 0
Blocked(w) == w \in DOMAIN workers /\ workers[w].pc = "blocked"
Running(w) == Started(w) /\ ~TerminalHandled(w)
AllBlank(t) == \A i \in 1..Len(t) : t[i] = " "

\* C1 as stated: every started worker has its terminal notification handled,
\* whatever the backend does
C1_AlwaysTerminal ==
  \A w \in WorkerIds : Started(w) ~> TerminalHandled(w)

\* what holds of C1: every started worker has its terminal notification
\* handled, unless its backend call never returns and never raises, or the
\* process is aborted
C1_TerminalUnlessBlockedForever ==
  \A w \in WorkerIds :
    (Started(w) ~> TerminalHandled(w)) \/ <>[]Blocked(w) \/ <>aborted

C1_Witness ==
  /\ Len(workers) = 2
  /\ TerminalHandled(1)
  /\ TerminalHandled(2)

\* C2: what a worker has emitted is progress* followed by at most one of
\* finished and error, nothing follows the terminal one, and a worker past
\* its try block has emitted exactly one terminal notification
C2_EmitShape ==
  \A w \in DOMAIN workers :
    LET e == workers[w].emitted
    IN /\ \A i \in 1..Len(e) : e[i] \in Terminals => i = Len(e)
       /\ \A i \in 1..Len(e) : e[i] \in Terminals \cup {"progress"}
       /\ Count(e, Terminals) <= 1
       /\ workers[w].pc \in {"emitted", "returned", "destroyed"}
            <=> Count(e, Terminals) = 1

C2_Witness ==
  /\ Len(workers) = 2
  /\ workers[1].emitted = <<"progress", "error">>
  /\ workers[2].emitted = <<"progress", "finished">>
  /\ workers[2].pc = "returned"

\* C3: process_question on an empty or whitespace-only question changes
\* nothing: no worker is created or started, nothing is queued, no backend
\* request is made, the controls and the progress bar stay as they were
C3_BlankRejected ==
  [][(op' = "process_question" /\ AllBlank(input_area))
       => UNCHANGED <<enabled, progress, worker, workers, mainq, outcome,
                      aborted, status_label, output_area, df, last_load>>]_vars

C3_Witness ==
  /\ op = "process_question"
  /\ input_area # <<>>
  /\ AllBlank(input_area)
  /\ Len(workers) = 1

\* C4: at most one worker is started and not yet terminal-handled
C4_SingleFlight ==
  Cardinality({w \in DOMAIN workers : Running(w)}) <= 1

C4_Witness ==
  /\ Len(workers) = 2
  /\ Running(2)
  /\ ~Running(1)
  /\ workers[2].pc = "blocked"

\* C5: a notification handed to a slot comes from the worker self.worker
\* refers to
C5_OnlyCurrentDelivered ==
  [][\A sig \in Terminals \cup {"progress"} :
       Dispatched(sig) => Head(mainq).w = worker]_vars

C5_Witness ==
  /\ worker = 2
  /\ workers[1].pc = "destroyed"
  /\ workers[2].handled = <<"progress">>
  /\ status_label = <<InitMessage>>

\* the description run() passes to error.emit for what happened to it
Description(o) == IF o.kind = "fault" THEN o.value ELSE KeyErrorText
Failed(w) == outcome[w].kind \in {"fault", "no text"}

\* C6: a fault inside run(), or a response without "text", makes the worker
\* emit progress then one error carrying the description and no finished;
\* the worker goes on to return; once handled, the output area shows
\* "Error: " followed by the description
C6_FaultBecomesError ==
  \A w \in DOMAIN workers :
    Failed(w) =>
      /\ workers[w].emitted = <<"progress", "error">>
      /\ workers[w].pc \in {"emitted", "returned", "destroyed"}
      /\ \A i \in 1..Len(mainq) :
           (mainq[i].w = w /\ mainq[i].sig = "error")
             => mainq[i].arg = Description(outcome[w])
      /\ (worker = w /\ TerminalHandled(w))
           => output_area = <<"Error: ">> \o Description(outcome[w])

C6_Witness ==
  /\ worker = 1
  /\ outcome[1].kind = "no text"
  /\ TerminalHandled(1)
  /\ output_area = <<"Error: ", "'text'">>

\* C7: a backend response with text T makes the worker emit progress then one
\* finished carrying T and no error; once handled, the output area holds T
C7_SuccessBecomesFinished ==
  \A w \in DOMAIN workers :
    outcome[w].kind = "text" =>
      /\ workers[w].emitted = <<"progress", "finished">>
      /\ \A i \in 1..Len(mainq) :
           mainq[i].w = w /\ mainq[i].sig \in Terminals
             => mainq[i].sig = "finished" /\ mainq[i].arg = outcome[w].value
      /\ (worker = w /\ TerminalHandled(w)) => output_area = outcome[w].value

C7_Witness ==
  /\ worker = 2
  /\ outcome[1] = [kind |-> "text", value |-> <<"T1">>]
  /\ outcome[2] = [kind |-> "text", value |-> <<"T2">>]
  /\ TerminalHandled(2)
  /\ output_area = <<"T2">>

\* C8: a worker makes at most one backend request, and makes it only between
\* its start and its terminal emit; a worker that failed makes no further one
C8_NoRetry ==
  \A w \in DOMAIN workers :
    /\ workers[w].calls <= 1
    /\ workers[w].pc \in {"created", "started", "llm", "chain", "invoke"}
         => workers[w].calls = 0

C8_Witness ==
  /\ Len(workers) = 2
  /\ outcome[1].kind = "fault"
  /\ workers[1].calls = 1
  /\ workers[2].calls = 1

\* C9: from the handling of the current worker's terminal notification until
\* the next accepted submit, the four input controls are enabled and the
\* progress bar is hidden
C9_Rearmed ==
  (worker # NoWorker /\ TerminalHandled(worker) /\ ~aborted)
    => /\ enabled = AllEnabled
       /\ progress = "hidden"

C9_Witness ==
  /\ worker = 1
  /\ workers[1].handled = <<"progress", "error">>
  /\ enabled = AllEnabled
  /\ progress = "hidden"
  /\ ~aborted

\* the context process_question builds from a dataset
ContextOf(d) == IF d = NoDf THEN NoneCtx ELSE CsvContext(Datasets[d])

\* C10: the request a worker sends carries the model, the temperature and
\* the prompt of the question and dataset the window held at submit time
C10_SubmitSnapshot ==
  \A w \in DOMAIN workers :
    LET r == workers[w].request
        a == workers[w].at_submit
    IN workers[w].pc = "blocked" =>
         /\ r.model = ModelItems[a.model_selector]
         /\ r.temperature = Float(TempItems[a.temp_selector])
         /\ r.prompt = Prompt(Strip(a.input_area), ContextOf(a.df))

C10_Witness ==
  \E w \in DOMAIN workers :
    /\ workers[w].pc = "blocked"
    /\ workers[w].request.df_at_call # workers[w].at_submit.df
    /\ workers[w].at_submit.df # NoDf
    /\ workers[w].at_submit.model_selector = 2

\* C11: the backend request is made by a background thread, never by the
\* main thread; while a worker is blocked in the backend call the main
\* thread is free to load a CSV, to create a plot and to handle a queued
\* progress notification
C11_BackendOffForeground ==
  /\ \A w \in DOMAIN workers :
       workers[w].calls > 0 => workers[w].thread = "background"
  /\ \A w \in DOMAIN workers :
       (workers[w].pc = "blocked" /\ ~aborted) =>
         /\ ENABLED (MainIdle /\ LoadsCsv)
         /\ ENABLED (MainIdle /\ Plots)
         /\ (mainq # <<>> /\ Head(mainq).sig = "progress")
              => ENABLED (MainIdle /\ handle_progress)

C11_Witness ==
  \E w \in DOMAIN workers :
    /\ workers[w].pc = "blocked"
    /\ workers[w].handled = <<"progress">>
    /\ workers[w].request.df_at_call # df
    /\ status_label = <<"Plot created successfully">>

\* position of the first token of seq equal to tok, 0 when there is none
First(seq, tok) ==
  IF \E i \in 1..Len(seq) : seq[i] = tok
  THEN CHOOSE i \in 1..Len(seq) :
         seq[i] = tok /\ \A j \in 1..(i - 1) : seq[j] # tok
  ELSE 0

\* C12: the prompt a worker sends is laid out from the question and the
\* dataset of submit time.  Without a dataset it is "Question: ", the
\* question, "\nDetailed Answer:".  With a dataset it holds, in this order,
\* the row and column counts, the column names, the first rows, the summary
\* statistics and then the question, followed by the closing instruction
C12_PromptLayout ==
  \A w \in DOMAIN workers :
    workers[w].pc = "blocked" =>
      LET p == workers[w].request.prompt
          q == Strip(workers[w].at_submit.input_area)
          d == workers[w].at_submit.df
          n == Len(p)
      IN IF d = NoDf
         THEN /\ n = Len(q) + 2
              /\ p[1] = "Question: "
              /\ SubSeq(p, 2, n - 1) = q
              /\ p[n] = "\nDetailed Answer:"
         ELSE LET D == Datasets[d]
                  r == First(p, " rows and ")
                  c == First(p, " columns.\nColumn names: ")
                  h == First(p, D.head)
                  t == First(p, D.describe)
                  a == First(p, "\n\nQuestion about the data: ")
              IN /\ p[1] = "CSV Data Context:\n"
                 /\ r > 2
                 /\ p[r - 1] = ToString(D.rows)
                 /\ p[r + 1] = ToString(D.cols)
                 /\ c = r + 2
                 /\ \A k \in 1..Len(D.columns) : p[c + 2 * k - 1] = D.columns[k]
                 /\ \A k \in 1..(Len(D.columns) - 1) : p[c + 2 * k] = ", "
                 /\ c + 2 * Len(D.columns) - 1 < h
                 /\ h < t
                 /\ t < a
                 /\ a = n - Len(q) - 1
                 /\ SubSeq(p, a + 1, n - 1) = q
                 /\ p[n] = "\n\nProvide a clear and detailed answer based on the CSV data above:"

C12_Witness ==
  \E w \in DOMAIN workers :
    /\ workers[w].pc = "blocked"
    /\ workers[w].at_submit.df = 1
    /\ workers[w].at_submit.input_area = <<"q", " ">>
    /\ Len(workers[w].request.prompt) = 16

\* C13: a worker blocked in the backend call leaves it in the end, at the
\* latest through a timeout error, and its terminal notification is handled:
\* no worker stays blocked forever
C13_DeadlineEndsCall ==
  \A w \in WorkerIds : Blocked(w) ~> (~Blocked(w) /\ TerminalHandled(w))

\* C14: a worker that is past the first statement of run() (it constructs the
\* client, builds the chain, calls the backend, or is done) has emitted
\* progress first; the progress notification carries "Initializing LLM...";
\* the first notification a slot handles for a worker is that progress
C14_ProgressFirst ==
  /\ \A w \in DOMAIN workers :
       /\ workers[w].pc \notin {"created", "started"}
            => /\ workers[w].emitted # <<>>
               /\ workers[w].emitted[1] = "progress"
       /\ workers[w].pc \in {"created", "started"} => workers[w].emitted = <<>>
       /\ workers[w].handled # <<>> => workers[w].handled[1] = "progress"
       /\ outcome[w].kind # "nothing" => workers[w].emitted[1] = "progress"
  /\ \A i \in 1..Len(mainq) :
       mainq[i].sig = "progress" => mainq[i].arg = <<"Initializing LLM...">>

C14_Witness ==
  \E w \in DOMAIN workers :
    /\ workers[w].pc = "llm"
    /\ workers[w].emitted = <<"progress">>
    /\ workers[w].handled = <<>>
    /\ workers[w].calls = 0
    /\ mainq = <<[w |-> w, sig |-> "progress", arg |-> <<"Initializing LLM...">>]>>

\* C16: only the newest worker can have a running thread: no worker is
\* created, and self.worker is not overwritten, while the thread of the
\* previous worker is still executing
C16_NoOverwriteWhileRunning ==
  \A w \in DOMAIN workers : ThreadRunning(w) => w = Len(workers)

\* C15: while the window lives, an input control is disabled or the progress
\* bar is busy only if a worker is started and its terminal notification is
\* not yet handled.  (An aborted process has no window; the two ways out of
\* process_question that leave a worker unstarted after the controls were
\* disabled both abort it.)
C15_DisabledOnlyInFlight ==
  (~aborted /\ (enabled # AllEnabled \/ progress # "hidden"))
    => \E w \in DOMAIN workers : Running(w)

C15_Witness ==
  /\ ~aborted
  /\ enabled = AllDisabled
  /\ progress = "busy"
  /\ worker = 2
  /\ workers[2].pc = "started"
  /\ df # NoDf
  /\ temp_selector = 2

\* the request of worker w carries a dataset context
Grounded(w) == workers[w].request.prompt[1] = "CSV Data Context:\n"

\* C17: a dataset is loaded exactly when the last load attempt that was not
\* cancelled succeeded (none yet: nothing loaded; a failed one clears the
\* dataset, a cancelled one changes nothing), and the request of an accepted
\* submit carries dataset context exactly when a dataset was loaded at
\* submit time
C17_GroundedIffLoaded ==
  /\ df # NoDf <=> last_load = "ok"
  /\ \A w \in DOMAIN workers :
       LET a == workers[w].at_submit
       IN /\ workers[w].pc \in {"created", "started", "llm", "chain", "invoke", "blocked"}
               => /\ workers[w].csv_context # NoneCtx <=> a.df # NoDf
                  /\ a.df # NoDf <=> a.last_load = "ok"
          /\ workers[w].pc = "blocked"
               => (Grounded(w) <=> a.last_load = "ok")

C17_Witness ==
  /\ worker = 2
  /\ workers[2].pc = "blocked"
  /\ workers[2].at_submit.last_load = "fault"
  /\ ~Grounded(2)
  /\ workers[1].calls = 1
  /\ df # NoDf
====
